---------------------------- MODULE Spec2Model ----------------------------
(***************************************************************************)
(* Model of mne/viz/decoding.py: plot_gat_matrix and plot_gat_slice.       *)
(*                                                                         *)
(* Both functions are stateless: each call reads a GeneralizationAcrossTime*)
(* object (gat) and its arguments, and drives a matplotlib axes.  The      *)
(* state of the model is the gat object, the arguments of the last call    *)
(* and what that call did: the exception it raised (if any), the drawing   *)
(* calls it issued in order, the slice it extracted and the warnings it    *)
(* emitted.                                                                *)
(*                                                                         *)
(* Conventions.  Times are integers (a time grid; only differences and     *)
(* comparisons of times are used by the code).  Indices computed by the    *)
(* code (argmin, enumerate) keep their Python, 0-based, values; a TLA+     *)
(* sequence s is read at Python index j as s[j + 1].  Python values of     *)
(* several types (None | float, bool | float, str | float | int) are       *)
(* tuples <<kind, value>>.  A chance level is a fraction <<"float", num,   *)
(* den>> or NaN.                                                           *)
(***************************************************************************)
EXTENDS Integers, Sequences, FiniteSets

VARIABLES gat, args, res

vars == <<gat, args, res>>

---------------------------------------------------------------------------
(* Bounds of the model.                                                    *)

MaxTrain == 2
MaxTest == 2
MaxTime == 2
MaxStep == 2
MaxScore == 2
MaxTrials == 4
MaxLabels == 4

---------------------------------------------------------------------------
(* Python values.                                                          *)

None == <<"None">>
PyFloat(x) == <<"float", x>>
PyInt(x) == <<"int", x>>
PyStr(s) == <<"str", s>>
PyBool(b) == <<"bool", b>>
Frac(n, d) == <<"float", n, d>>
NaN == <<"nan">>

Kind(v) == v[1]
Val(v) == v[2]

IsNone(v) == Kind(v) = "None"
IsTrue(v) == Kind(v) = "bool" /\ Val(v)

---------------------------------------------------------------------------
(* numpy helpers.                                                          *)

Abs(x) == IF x < 0 THEN -x ELSE x

Range(s) == {s[k] : k \in 1..Len(s)}

\* np.argmin of a 1-D array: the first (0-based) index of the least entry.
ArgMin(s) ==
  (CHOOSE k \in 1..Len(s) :
      /\ \A m \in 1..Len(s) : s[k] <= s[m]
      /\ \A m \in 1..(k - 1) : s[m] > s[k]) - 1

\* np.abs(times - t)
AbsDiff(times, t) == [k \in 1..Len(times) |-> Abs(times[k] - t)]

\* every entry of a 2-D grid (a sequence of rows)
Entries(grid) == UNION {Range(grid[i]) : i \in 1..Len(grid)}

SetMin(S) == CHOOSE x \in S : \A y \in S : x <= y
SetMax(S) == CHOOSE x \in S : \A y \in S : x >= y

\* np.min / np.max of gat.scores_ (all entries of the grid)
NpMin(grid) == SetMin(Entries(grid))
NpMax(grid) == SetMax(Entries(grid))

\* len(np.unique(y))
NUnique(y) == Cardinality(Range(y))

RECURSIVE Concat(_)
Concat(rows) == IF rows = <<>> THEN <<>> ELSE Head(rows) \o Concat(Tail(rows))

\* A slice is <<ndim, data>>: ndim = 2 when it is gat.scores_ itself (a
\* sequence of rows), ndim = 1 when it is a flat sequence of values.
Arr1(data) == <<1, data>>
Arr2(data) == <<2, data>>
Ndim(a) == a[1]
Data(a) == a[2]
Flat(a) == IF Ndim(a) = 2 THEN Concat(Data(a)) ELSE Data(a)
\* len(a): the size of the first dimension, what ax.plot matches against x
FirstDim(a) == Len(Data(a))

---------------------------------------------------------------------------
(* The gat object.  scored = FALSE is a gat without the scores_ attribute  *)
(* (fitted and predicted, not scored); the grid it carries is then never   *)
(* read by the code.                                                       *)

Gat(scored, scores, times, step, test, scorer, y) ==
  [scored |-> scored,
   scores_ |-> scores,
   train_times |-> [times_ |-> times, step |-> step],
   test_times_ |-> [times_ |-> test],
   scorer_ |-> scorer,
   y_train_ |-> y]

\* Mutant: the check for scores_ is skipped.
HasScoresAlways(g) == TRUE

\* hasattr(gat, 'scores_')
HasScores(g) == g.scored

NRows(g) == Len(g.scores_)

---------------------------------------------------------------------------
(* plot_gat_slice: the slice extraction.                                   *)

\* Mutant: tests the number of rows of test_times_, not each row's length.
AllSingleRowCount(g) == Len(g.test_times_.times_) = 1

\* np.all(np.unique([len(t) for t in gat.test_times_['times_']]) == 1)
AllSingle(g) ==
  \A r \in 1..Len(g.test_times_.times_) : Len(g.test_times_.times_[r]) = 1

\* the test of line 163: train_time - test_times[j] <= gat.train_times['step']
WithinStep(train_time, test_time, step) == train_time - test_time <= step

\* The inner loop over the rows of test_times_, for the training time of
\* (0-based) index i, from row r on.  acc = [value, raised, reads]: the
\* value of scores[i] so far, the exception raised, and the reads
\* gat.scores_[i][j] made, each recorded as [i, r, j] with the row r of
\* test_times_ that j was computed from.
RECURSIVE DiagRows(_, _, _, _)
DiagRows(g, i, r, acc) ==
  IF r >= Len(g.test_times_.times_) THEN acc
  ELSE
    LET test_times == g.test_times_.times_[r + 1]
        train_time == g.train_times.times_[i + 1]
        j == ArgMin(AbsDiff(test_times, train_time))
        rd == [i |-> i, r |-> r, j |-> j]
    IN IF WithinStep(train_time, test_times[j + 1], g.train_times.step)
       THEN IF j >= Len(g.scores_[i + 1])
            THEN [acc EXCEPT !.raised = "IndexError",
                             !.reads = Append(@, rd)]
            ELSE DiagRows(g, i, r + 1,
                          [acc EXCEPT !.value = g.scores_[i + 1][j + 1],
                                      !.reads = Append(@, rd)])
       ELSE DiagRows(g, i, r + 1, acc)

\* The outer loop over the training times, from index i on.
\* acc = [scores, raised, reads]; scores starts as np.zeros(len(scores_)).
RECURSIVE DiagLoop(_, _, _)
DiagLoop(g, i, acc) ==
  IF i >= Len(g.train_times.times_) \/ acc.raised # "none" THEN acc
  ELSE
    LET row == DiagRows(g, i, 0,
                        [value |-> acc.scores[i + 1], raised |-> "none",
                         reads |-> acc.reads])
    IN DiagLoop(g, i + 1,
                [scores |-> [acc.scores EXCEPT ![i + 1] = row.value],
                 raised |-> row.raised,
                 reads |-> row.reads])

Zeros(n) == [k \in 1..n |-> 0]

Diagonal(g) ==
  DiagLoop(g, 0, [scores |-> Zeros(NRows(g)), raised |-> "none",
                  reads |-> <<>>])

\* Mutant: any string selects the diagonal.
IsDiagonalAnyStr(train_time) == Kind(train_time) = "str"

\* train_time == 'diagonal'
IsDiagonal(train_time) == Kind(train_time) = "str" /\ Val(train_time) = "diagonal"

\* type(train_time) in [float, np.float64, np.float32]
IsFloat(train_time) == Kind(train_time) = "float"

\* Mutant: np.abs is dropped, (times - train_time).argmin().
ClosestTrainNoAbs(g, t) ==
  ArgMin([k \in 1..Len(g.train_times.times_) |-> g.train_times.times_[k] - t])

\* np.abs(gat.train_times['times_'] - train_time).argmin()
ClosestTrain(g, t) == ArgMin(AbsDiff(g.train_times.times_, t))

NoSlice == Arr1(<<>>)

\* The exceptions raised, by their messages.
NotScoredError ==
  "RuntimeError: Please score your data before trying to plot scores"
NoClassifier == "ValueError: No classifier trained at"
InvalidSelector == "ValueError: train_time must be 'diagonal' or a float."

\* Lines 151-171: [raised, scores, reads].
ExtractSlice(g, train_time) ==
  IF AllSingle(g)
  THEN [raised |-> "none", scores |-> Arr2(g.scores_), reads |-> <<>>]
  ELSE IF IsDiagonal(train_time)
  THEN LET d == Diagonal(g)
       IN [raised |-> d.raised, scores |-> Arr1(d.scores), reads |-> d.reads]
  ELSE IF IsFloat(train_time)
  THEN LET idx == ClosestTrain(g, Val(train_time))
       IN IF idx = 0
          THEN [raised |-> NoClassifier,
                scores |-> NoSlice, reads |-> <<>>]
          ELSE [raised |-> "none", scores |-> Arr1(g.scores_[idx + 1]),
                reads |-> <<>>]
  ELSE [raised |-> InvalidSelector,
        scores |-> NoSlice, reads |-> <<>>]

---------------------------------------------------------------------------
(* Drawing calls.  A call is a record with a name and the arguments that   *)
(* matter; a function's calls are logged in the order it issues them.      *)

Call0(name) == [name |-> name]
Opt(cond, call) == IF cond THEN <<call>> ELSE <<>>

\* if ax is None: fig, ax = plt.subplots(1, 1)
Subplots(ax) == Opt(IsNone(ax), Call0("plt.subplots"))

\* Mutant: "if not v" in place of "if v is None": 0 counts as missing.
OrDefaultFalsy(v, d) == IF IsNone(v) \/ Val(v) = 0 THEN d ELSE Val(v)

\* v if v is not None else d
OrDefault(v, d) == IF IsNone(v) THEN d ELSE Val(v)

\* What a call did: the exception it raised ("none": it returned), the
\* drawing calls it issued, the slice and the chance level it computed.
Result(raised, calls, scores, reads, warnings, chance) ==
  [raised |-> raised, calls |-> calls, scores |-> scores, reads |-> reads,
   warnings |-> warnings, chance |-> chance, returned |-> raised = "none"]

\* raise RuntimeError(...), before anything else is done
NotScored(a) == Result(NotScoredError, <<>>, NoSlice, <<>>, <<>>, None)

---------------------------------------------------------------------------
(* plot_gat_slice: the chance level (lines 174-185).                       *)

\* Mutant: len(y_train_) in place of len(np.unique(y_train_)).
ChanceLevelPerTrial(g) ==
  IF g.scorer_ = "accuracy_score" THEN Frac(1, Len(g.y_train_))
  ELSE IF g.scorer_ = "roc_auc_score" THEN Frac(1, 2)
  ELSE NaN

\* gat.scorer_.__name__ is 'accuracy_score' / 'roc_auc_score': both sides
\* are interned identifier strings, so identity is equality of the names.
ChanceLevel(g) ==
  IF g.scorer_ = "accuracy_score" THEN Frac(1, NUnique(g.y_train_))
  ELSE IF g.scorer_ = "roc_auc_score" THEN Frac(1, 2)
  ELSE NaN

\* gat.scorer.__name__, read by the warning of line 184.  The attribute
\* scorer (without underscore) is set by GeneralizationAcrossTime, outside
\* this file; in the data model a source holds one scorer, so it is taken
\* to be the function that scorer_ is.
ScorerAttrName(g) == g.scorer_

ChanceWarnings(g) ==
  IF g.scorer_ \in {"accuracy_score", "roc_auc_score"} THEN <<>>
  ELSE << <<"Cannot find chance level from", ScorerAttrName(g)>> >>

\* The value of the local variable chance after line 184.
ResolvedChance(g, chance) == IF IsTrue(chance) THEN ChanceLevel(g) ELSE chance

\* Line 185, inside "if chance is True".
ChanceLine(g, chance) ==
  Opt(IsTrue(chance),
      [name |-> "ax.axhline", y |-> ResolvedChance(g, chance),
       color |-> "k", linestyle |-> "--", label |-> "Chance level"])

\* 'AUC' if 'roc' in repr(gat.scorer_) else '%'
YLabel(g) == IF g.scorer_ = "roc_auc_score"
             THEN "Classif. score (AUC)" ELSE "Classif. score (%)"

---------------------------------------------------------------------------
(* plot_gat_slice, whole.  a is the record of its arguments.               *)

SliceArgs(train_time, chance, ax, show) ==
  [fn |-> "plot_gat_slice", train_time |-> train_time, title |-> None,
   xmin |-> None, xmax |-> None, ymin |-> None, ymax |-> None, ax |-> ax,
   show |-> show, color |-> "b", xlabel |-> TRUE, ylabel |-> TRUE,
   legend |-> TRUE, chance |-> chance]

\* Lines 172-204, once the slice is extracted.
SliceDrawing(g, a, scores) ==
     << [name |-> "ax.plot", x |-> g.train_times.times_, y |-> scores,
         color |-> a.color, label |-> "Classif. score"] >>
  \o ChanceLine(g, a.chance)
  \o Opt(~IsNone(a.title), [name |-> "ax.set_title", text |-> a.title])
  \o << [name |-> "ax.set_ylim",
         lo |-> OrDefault(a.ymin, SetMin(Range(Flat(scores)))),
         hi |-> OrDefault(a.ymax, SetMax(Range(Flat(scores))))] >>
  \o Opt(~IsNone(a.xmin) /\ ~IsNone(a.xmax),
         [name |-> "ax.set_xlim", lo |-> a.xmin, hi |-> a.xmax])
  \o Opt(a.xlabel, [name |-> "ax.set_xlabel", text |-> "Time (s)"])
  \o Opt(a.ylabel, [name |-> "ax.set_ylabel", text |-> YLabel(g)])
  \o Opt(a.legend, Call0("ax.legend"))
  \o Opt(a.show, Call0("plt.show"))

PlotGatSliceResult(g, a) ==
  IF ~HasScores(g) THEN NotScored(a)
  ELSE
    LET x == ExtractSlice(g, a.train_time)
    IN IF x.raised # "none"
       THEN Result(x.raised, Subplots(a.ax), x.scores, x.reads, <<>>,
                   a.chance)
       ELSE Result("none",
                   Subplots(a.ax) \o SliceDrawing(g, a, x.scores),
                   x.scores, x.reads,
                   IF IsTrue(a.chance) THEN ChanceWarnings(g) ELSE <<>>,
                   ResolvedChance(g, a.chance))

---------------------------------------------------------------------------
(* plot_gat_matrix, whole.                                                 *)

MatrixArgs(vmin, vmax, ax, show) ==
  [fn |-> "plot_gat_matrix", title |-> None, vmin |-> vmin, vmax |-> vmax,
   tlim |-> None, ax |-> ax, cmap |-> "RdBu_r", show |-> show,
   colorbar |-> TRUE, xlabel |-> TRUE, ylabel |-> TRUE]

Last(s) == s[Len(s)]

\* [tn_times[0][0], tn_times[-1][-1], tt_times[0], tt_times[-1]]
DefaultTlim(g) ==
  LET tt_times == g.train_times.times_
      tn_times == g.test_times_.times_
  IN << tn_times[1][1], Last(Last(tn_times)), tt_times[1], Last(tt_times) >>

\* Lines 65-69.
ColorLimits(g, vmin, vmax) ==
  [vmin |-> OrDefault(vmin, NpMin(g.scores_)),
   vmax |-> OrDefault(vmax, NpMax(g.scores_))]

\* Lines 71-93.
MatrixDrawing(g, a) ==
  LET lim == ColorLimits(g, a.vmin, a.vmax)
      tlim == IF IsNone(a.tlim) THEN DefaultTlim(g) ELSE Val(a.tlim)
  IN << [name |-> "ax.imshow", image |-> g.scores_,
         interpolation |-> "nearest", origin |-> "lower", extent |-> tlim,
         vmin |-> lim.vmin, vmax |-> lim.vmax, cmap |-> a.cmap] >>
     \o Opt(a.xlabel, [name |-> "ax.set_xlabel", text |-> "Testing Time (s)"])
     \o Opt(a.ylabel, [name |-> "ax.set_ylabel", text |-> "Training Time (s)"])
     \o Opt(~IsNone(a.title), [name |-> "ax.set_title", text |-> a.title])
     \o << [name |-> "ax.axvline", at |-> 0, color |-> "k"],
           [name |-> "ax.axhline", y |-> PyFloat(0), color |-> "k",
            linestyle |-> "-", label |-> ""],
           [name |-> "ax.set_xlim", lo |-> tlim[1], hi |-> tlim[2]],
           [name |-> "ax.set_ylim", lo |-> tlim[3], hi |-> tlim[4]] >>
     \o Opt(a.colorbar, Call0("plt.colorbar"))
     \o Opt(a.show, Call0("plt.show"))

PlotGatMatrixResult(g, a) ==
  IF ~HasScores(g) THEN NotScored(a)
  ELSE Result("none", Subplots(a.ax) \o MatrixDrawing(g, a),
              NoSlice, <<>>, <<>>, None)

---------------------------------------------------------------------------
(* The state machine: a gat object, and calls of the two functions on it.  *)

NoCall == [fn |-> "none"]
NoResult ==
  [raised |-> "none", calls |-> <<>>, scores |-> NoSlice, reads |-> <<>>,
   warnings |-> <<>>, chance |-> None, returned |-> FALSE]

PlotGatSlice(train_time, chance, ax, show) ==
  LET a == SliceArgs(train_time, chance, ax, show)
  IN /\ args' = a
     /\ res' = PlotGatSliceResult(gat, a)
     /\ UNCHANGED gat

PlotGatMatrix(vmin, vmax, ax, show) ==
  LET a == MatrixArgs(vmin, vmax, ax, show)
  IN /\ args' = a
     /\ res' = PlotGatMatrixResult(gat, a)
     /\ UNCHANGED gat

---------------------------------------------------------------------------
(* Inputs.  Training times are 0, step, 2 step, ... (only differences of   *)
(* times are read by the code).  A row of test times is a window start,    *)
(* start + step, ...; rows may differ in start and in length, so the grid  *)
(* may be ragged.                                                          *)

TrainTimes(n, step) == [k \in 1..n |-> (k - 1) * step]
TestRow(start, len, step) == [k \in 1..len |-> start + (k - 1) * step]

\* The slice extraction moves scores without computing on them: each cell
\* holds a positive score that names the cell, so a slice value tells which
\* cell it was read from and differs from the 0 default.
CellScore(i, j) == (i - 1) * MaxTest + j
CellScores(lens) == [i \in 1..Len(lens) |-> [j \in 1..lens[i] |-> CellScore(i, j)]]

Starts == (0 - MaxTime)..MaxTime

Selectors ==
  {PyStr("diagonal"), PyStr("unsupported-string"), PyInt(1)}
    \cup {PyFloat(t) : t \in 0..MaxTime}

\* A drawing surface passed by the caller.
Axes == <<"Axes">>

Scorers == {"accuracy_score", "roc_auc_score", "mean_squared_error"}
Labels == UNION {[1..l -> 1..MaxLabels] : l \in 1..MaxTrials}

(* Slices of scored grids of every shape.                                  *)
Init ==
  /\ \E n \in 1..MaxTrain, step \in 1..MaxStep :
       \E starts \in [1..n -> Starts], lens \in [1..n -> 1..MaxTest] :
         gat = Gat(TRUE, CellScores(lens), TrainTimes(n, step), step,
                   [i \in 1..n |-> TestRow(starts[i], lens[i], step)],
                   "accuracy_score", <<1, 2>>)
  /\ args = NoCall
  /\ res = NoResult

Next ==
  \E train_time \in Selectors :
    PlotGatSlice(train_time, PyBool(TRUE), None, TRUE)

Spec == Init /\ [][Next]_vars

(* Both functions on rectangular grids of any scores, scored or not.       *)
InitMatrix ==
  /\ \E n \in 1..MaxTrain, m \in 1..MaxTest, scored \in BOOLEAN :
       \E scores \in [1..n -> [1..m -> 1..MaxScore]] :
         gat = Gat(scored, scores, TrainTimes(n, 1), 1,
                   [i \in 1..n |-> TestRow(0, m, 1)],
                   "accuracy_score", <<1, 2>>)
  /\ args = NoCall
  /\ res = NoResult

NextMatrix ==
  \/ \E vmin \in {None, PyFloat(0)}, vmax \in {None, PyFloat(0)} :
       PlotGatMatrix(vmin, vmax, None, TRUE)
  \/ PlotGatMatrix(None, None, Axes, FALSE)
  \/ \E ax \in {None, Axes} :
       PlotGatSlice(PyStr("diagonal"), PyBool(TRUE), ax, TRUE)

SpecMatrix == InitMatrix /\ [][NextMatrix]_vars

(* The chance level, for every scorer and every sequence of labels.        *)
InitChance ==
  /\ \E scorer \in Scorers, y \in Labels :
       gat = Gat(TRUE, CellScores([i \in 1..MaxTrain |-> MaxTest]),
                 TrainTimes(MaxTrain, 1), 1,
                 [i \in 1..MaxTrain |-> TestRow(0, MaxTest, 1)],
                 scorer, y)
  /\ args = NoCall
  /\ res = NoResult

NextChance ==
  \E chance \in {PyBool(TRUE), PyBool(FALSE), Frac(1, 3)} :
    PlotGatSlice(PyStr("diagonal"), chance, None, TRUE)

SpecChance == InitChance /\ [][NextChance]_vars

---------------------------------------------------------------------------
(* Properties.                                                             *)

SliceCalled == args.fn = "plot_gat_slice"
MatrixCalled == args.fn = "plot_gat_matrix"

CallsNamed(name) == {k \in 1..Len(res.calls) : res.calls[k].name = name}

\* the ax.plot call of the last call (there is at most one)
ThePlot == res.calls[CHOOSE k \in CallsNamed("ax.plot") : TRUE]
TheImage == res.calls[CHOOSE k \in CallsNamed("ax.imshow") : TRUE]

ChanceLines ==
  {k \in CallsNamed("ax.axhline") : res.calls[k].label = "Chance level"}

TrainTime(i) == gat.train_times.times_[i + 1]
TestTime(r, j) == gat.test_times_.times_[r + 1][j + 1]
Reads == Range(res.reads)

\* the (0-based) index of the training time closest to t, the first of them
\* when several are equally close
Nearest(t) ==
  LET n == Len(gat.train_times.times_)
      d(k) == Abs(TrainTime(k) - t)
  IN SetMin({k \in 0..(n - 1) : \A m \in 0..(n - 1) : d(k) <= d(m)})

SomeRowNotSingle ==
  \E r \in 1..Len(gat.test_times_.times_) : Len(gat.test_times_.times_[r]) # 1

(* C1: on a grid where some row has more than one test time, the diagonal  *)
(* slice takes for training row i either scores[i][j] of a test time at    *)
(* most step away from t_i, or keeps the 0 default; no test time farther   *)
(* than step from t_i, on either side, is ever selected.  The code tests   *)
(* only t_i - test <= step, so a test time far AFTER t_i is selected.      *)
C1_SelectedWithinStep ==
  (SliceCalled /\ IsDiagonal(args.train_time) /\ SomeRowNotSingle
     /\ res.raised = "none")
  => /\ \A rd \in Reads :
          Abs(TrainTime(rd.i) - TestTime(rd.r, rd.j)) <= gat.train_times.step
     /\ \A i \in 0..(NRows(gat) - 1) :
          \/ \E rd \in Reads : /\ rd.i = i
                               /\ Data(res.scores)[i + 1] = gat.scores_[i + 1][rd.j + 1]
          \/ /\ Data(res.scores)[i + 1] = 0
             /\ \A rd \in Reads : rd.i # i

(* C9: in the diagonal extraction every index j used to read scores[i][j]  *)
(* is a valid column index of row i, also on ragged grids.  The code       *)
(* computes j from every row's test times, so a longer row gives a j       *)
(* outside a shorter row i.                                                *)
C9_ReadsInsideRow ==
  (SliceCalled /\ IsDiagonal(args.train_time))
  => /\ \A rd \in Reads : rd.j < Len(gat.scores_[rd.i + 1])
     /\ res.raised # "IndexError"

(* C10: whenever a slice is extracted without raising, it has as many      *)
(* values as there are training times, so ax.plot can pair them.  With a   *)
(* float selector the slice is the row scores[idx], as long as that row's  *)
(* test times.                                                             *)
C10_SliceLength ==
  (SliceCalled /\ res.raised = "none" /\ HasScores(gat))
  => /\ CallsNamed("ax.plot") # {}
     /\ FirstDim(ThePlot.y) = Len(ThePlot.x)
     /\ ThePlot.x = gat.train_times.times_

ResolvesClosestRow ==
  LET idx == Nearest(Val(args.train_time))
  IN /\ idx = 0 => /\ res.raised = NoClassifier
                   /\ CallsNamed("ax.plot") = {}
     /\ idx # 0 => /\ res.raised = "none"
                   /\ Cardinality(CallsNamed("ax.plot")) = 1
                   /\ ThePlot.y = Arr1(gat.scores_[idx + 1])

RaisesInvalidSelector ==
  /\ res.raised = InvalidSelector
  /\ CallsNamed("ax.plot") = {}
  /\ ~res.returned

NotDiagonalNotNumeric ==
  /\ ~(Kind(args.train_time) = "str" /\ Val(args.train_time) = "diagonal")
  /\ Kind(args.train_time) \notin {"float", "int"}

(* C3, as claimed: for every scored source, whatever the shape of its test *)
(* times, a selector that is neither 'diagonal' nor numeric raises         *)
(* "train_time must be 'diagonal' or a float." and nothing is plotted.     *)
C3_Original ==
  (SliceCalled /\ HasScores(gat) /\ NotDiagonalNotNumeric)
  => RaisesInvalidSelector

(* C3, amended: the same for every scored source in which some row of      *)
(* test_times does not have exactly one entry.                             *)
C3_Amended ==
  (SliceCalled /\ HasScores(gat) /\ NotDiagonalNotNumeric /\ SomeRowNotSingle)
  => RaisesInvalidSelector

C3_Witness ==
  /\ SliceCalled /\ HasScores(gat) /\ SomeRowNotSingle
  /\ args.train_time = PyStr("unsupported-string")
  /\ res.raised = InvalidSelector
  /\ res.calls = <<Call0("plt.subplots")>>

(* C4: when every row of test_times has exactly one entry, the 'diagonal'  *)
(* slice that is plotted is the flattened scores, one value per training   *)
(* time in row order, none replaced by the 0 default.                      *)
C4_SingleIsFlattened ==
  (SliceCalled /\ HasScores(gat) /\ IsDiagonal(args.train_time)
     /\ ~SomeRowNotSingle)
  => /\ res.raised = "none"
     /\ Cardinality(CallsNamed("ax.plot")) = 1
     /\ Flat(ThePlot.y) = [i \in 1..NRows(gat) |-> gat.scores_[i][1]]
     /\ \A i \in 1..NRows(gat) : Flat(ThePlot.y)[i] # 0

\* two training times, each with one test time, the second more than a step
\* before its training time: the diagonal test would have left the default
C4_Witness ==
  /\ SliceCalled /\ HasScores(gat) /\ IsDiagonal(args.train_time)
  /\ ~SomeRowNotSingle
  /\ NRows(gat) = 2
  /\ \A r \in 0..1 : TrainTime(1) - TestTime(r, 0) > gat.train_times.step
  /\ Flat(ThePlot.y) = <<gat.scores_[1][1], gat.scores_[2][1]>>

LabelSet == {gat.y_train_[k] : k \in 1..Len(gat.y_train_)}

C6_ChanceLineDrawn ==
  (SliceCalled /\ HasScores(gat) /\ res.raised = "none")
  => /\ Kind(args.chance) = "float"
          => \E k \in ChanceLines : /\ res.calls[k].y = args.chance
                                    /\ res.calls[k].linestyle = "--"
     /\ (args.chance = PyBool(TRUE) /\ Kind(res.chance) = "float")
          => \E k \in ChanceLines : /\ res.calls[k].y = res.chance
                                    /\ res.calls[k].linestyle = "--"
     /\ args.chance = PyBool(FALSE) => ChanceLines = {}

(* C7: for both functions, a source without scores raises the RuntimeError *)
(* before any figure is created and before any drawing call or show.       *)
C7_NotScoredBeforeDrawing ==
  ((SliceCalled \/ MatrixCalled) /\ ~gat.scored)
  => /\ res.raised = NotScoredError
     /\ res.calls = <<>>
     /\ ~res.returned

C7_Witness ==
  /\ MatrixCalled /\ ~gat.scored
  /\ IsNone(args.ax) /\ args.show
  /\ res.raised = NotScoredError
  /\ res.calls = <<>>

IsLeast(v, S) == v \in S /\ \A x \in S : v <= x
IsGreatest(v, S) == v \in S /\ \A x \in S : v >= x

(* C8: in plot_gat_matrix (on a rectangular grid, the shape an image has)  *)
(* the colour limits passed to imshow are, each on its own, the caller's   *)
(* vmin / vmax when supplied and otherwise the least / greatest value in   *)
(* scores.                                                                 *)
C8_ColorLimits ==
  (MatrixCalled /\ gat.scored)
  => /\ Cardinality(CallsNamed("ax.imshow")) = 1
     /\ IF IsNone(args.vmin)
        THEN IsLeast(TheImage.vmin, Entries(gat.scores_))
        ELSE TheImage.vmin = Val(args.vmin)
     /\ IF IsNone(args.vmax)
        THEN IsGreatest(TheImage.vmax, Entries(gat.scores_))
        ELSE TheImage.vmax = Val(args.vmax)

C8_Witness ==
  /\ MatrixCalled /\ gat.scored
  /\ IsNone(args.vmin) /\ args.vmax = PyFloat(0)
  /\ TheImage.vmin = 1 /\ TheImage.vmax = 0
  /\ Entries(gat.scores_) = {1, 2}


===========================================================================
